---------------------------- MODULE Spec2Model ----------------------------
(***************************************************************************)
(* Model of extract_vst_chunk_data.py: the tree search over a parsed scene *)
(* document (find_chunk_data_in_json), the driver (main) with its file     *)
(* selection loop and clipboard policy, the entry point with its exit      *)
(* codes, the log retention loop (enforce_max_folder_size) and the         *)
(* duration formatter (format_duration_long).                              *)
(***************************************************************************)
EXTENDS Integers, Sequences, FiniteSets, TLC

VARIABLES
    obj,          \* find_chunk_data_in_json: the document handed to the search
    found,        \* find_chunk_data_in_json: its outcome, NoResult before the call
    spc,          \* position of the search run: "call" | "returned" | "raised"
    log_dir,      \* enforce_max_folder_size: the "*.log*" files, in glob order
    on_disk,      \* the files of log_dir that still exist
    max_bytes,    \* the limit: NoLimit (None) or <<n>>
    files,        \* the list sorted by mtime, popped from the front
    total_size,   \* the running total of line 186
    deleted,      \* the files unlinked, in the order of their deletion
    failed,       \* the files whose deletion raised
    rpc,          \* position in enforce_max_folder_size: "call" | "loop" | "done"
    duration,     \* format_duration_long: the elapsed nanoseconds of line 277
    ns,           \* the nanoseconds still to be split into units
    parts,        \* the (value, name) parts collected so far
    unit,         \* index of the unit the loop of line 162 is at
    result,       \* the string returned
    fpc,          \* position in format_duration_long: "call" | "loop" | "join" | "done"
    config,       \* the settings file: "present" | "missing" | "invalid"
    scenes_exists,\* whether the scenes folder exists
    json_files,   \* main: the candidate files, in the order of the directory scan
    console,      \* the lines typed at the selection prompt so far
    reported,     \* the number of rejections logged by the selection loop
    selected_file,\* main: the file selected, NoFile before
    data,         \* main: the document read from the selected file
    chunk_datas,  \* main: the list the search returned
    clipboard,    \* the values written to the clipboard, in order
    error,        \* the entry point's exit status variable
    fault,        \* what ended the try block: "none", "interrupt" or the failure
    fault_at,     \* the position at which it did
    handlers,     \* logger.handlers
    open_handlers,\* the handlers created and not yet closed
    acked,        \* whether "Press Enter to exit..." was shown and answered
    exit_code,    \* the status passed to sys.exit: <<>> while running
    mpc           \* position of the run

searchVars == <<obj, found, spc>>
retentionVars == <<log_dir, on_disk, max_bytes, files, total_size, deleted, failed, rpc>>
formatVars == <<duration, ns, parts, unit, result, fpc>>
mainVars == <<config, scenes_exists, json_files, console, reported, selected_file, data,
              chunk_datas, clipboard, error, fault, fault_at, handlers, open_handlers,
              acked, exit_code, mpc>>
vars == <<obj, found, spc, log_dir, on_disk, max_bytes, files, total_size, deleted,
          failed, rpc, duration, ns, parts, unit, result, fpc, config, scenes_exists,
          json_files, console, reported, selected_file, data, chunk_datas, clipboard,
          error, fault, fault_at, handlers, open_handlers, acked, exit_code, mpc>>

NoResult == [err |-> FALSE, found |-> <<>>]

(***************************************************************************)
(* JSON values as json.load builds them.  A value is [t, v]: t the Python  *)
(* type, v the payload.  A str is the tuple of its characters, a dict is   *)
(* the tuple of its <<key, value>> items in insertion order, a list the    *)
(* tuple of its elements; None, numbers and booleans carry a token.        *)
(***************************************************************************)
Str(s) == [t |-> "str", v |-> s]
None == [t |-> "null", v |-> <<>>]
Num(n) == [t |-> "num", v |-> <<n>>]
Bool(b) == [t |-> "bool", v |-> <<b>>]
Dict(items) == [t |-> "dict", v |-> items]
List(elems) == [t |-> "list", v |-> elems]

\* The literal "reafir_standalone.dll" of line 48.
Suffix == <<"r","e","a","f","i","r","_","s","t","a","n","d","a","l","o","n","e",".","d","l","l">>

\* str.endswith
endswith(s, suf) ==
    /\ Len(s) >= Len(suf)
    /\ SubSeq(s, Len(s) - Len(suf) + 1, Len(s)) = suf

\* dict.get(key, default): the value of the item with that key, else default.
get(d, key, default) ==
    IF \E i \in 1..Len(d.v) : d.v[i][1] = key
    THEN d.v[CHOOSE i \in 1..Len(d.v) : d.v[i][1] = key][2]
    ELSE default

\* dict.values() / the elements of a list, in iteration order.
values(d) == [i \in 1..Len(d.v) |-> d.v[i][2]]

(***************************************************************************)
(* find_chunk_data_in_json(obj, found).  The outcome is [err, found]: err  *)
(* is TRUE when the call raised (AttributeError: the plugin_path value has *)
(* no endswith), and the exception passes through every enclosing call.    *)
(***************************************************************************)
RECURSIVE find_chunk_data_in_json(_, _)
RECURSIVE find_each(_, _, _)

\* The for loops of lines 53-54 and 57-58 over vs[i..], threading found.
find_each(vs, i, acc) ==
    IF acc.err \/ i > Len(vs) THEN acc
    ELSE find_each(vs, i + 1, find_chunk_data_in_json(vs[i], acc.found))

\* Lines 48-51: the plugin_path test and the append of chunk_data.
match_chunk(o, fnd) ==
    LET pp == get(o, "plugin_path", Str(<<>>))
    IN  IF pp.t # "str" THEN [err |-> TRUE, found |-> fnd]
        ELSE IF endswith(pp.v, Suffix) /\ get(o, "chunk_data", None) # None
             THEN [err |-> FALSE, found |-> Append(fnd, get(o, "chunk_data", None))]
             ELSE [err |-> FALSE, found |-> fnd]

find_chunk_data_in_json(o, fnd) ==
    IF o.t = "dict"
    THEN find_each(values(o), 1, match_chunk(o, fnd))
    ELSE IF o.t = "list"
         THEN find_each(o.v, 1, [err |-> FALSE, found |-> fnd])
         ELSE [err |-> FALSE, found |-> fnd]


(***************************************************************************)
(* The scene documents the search is run on.                               *)
(***************************************************************************)
\* Marks a key left out of a generated dict; never part of a document.
Absent == [t |-> "absent", v |-> <<>>]
MkDict(items) == Dict(SelectSeq(items, LAMBDA it : it[2] # Absent))

PathStrings ==
    { Suffix,                               \* "reafir_standalone.dll"
      <<"C", ":", "/">> \o Suffix,          \* "C:/reafir_standalone.dll"
      Suffix \o <<"x">>,                    \* "reafir_standalone.dllx"
      <<"R">> \o Tail(Suffix),              \* "Reafir_standalone.dll"
      <<>> }                                \* ""
NonStrings == { None, Num("7"), Bool("true"), Dict(<<>>), List(<<>>) }
PluginPaths == {Str(s) : s \in PathStrings} \cup NonStrings \cup {Absent}
Chunks == { Str(<<"X">>), Str(<<"Y">>), None, Absent }

\* One mapping with the two interpreted keys, in either key order.
Entries ==
    { MkDict(<< <<"plugin_path", pp>>, <<"chunk_data", ch>> >>) :
          pp \in PluginPaths, ch \in Chunks }
    \cup
    { MkDict(<< <<"chunk_data", ch>>, <<"plugin_path", pp>> >>) :
          pp \in PluginPaths, ch \in Chunks }

Hit(ch) == MkDict(<< <<"plugin_path", Str(<<"C", ":", "/">> \o Suffix)>>,
                     <<"chunk_data", ch>> >>)
SomeEntries ==
    { Hit(Str(<<"X">>)), Hit(Str(<<"Y">>)), Hit(None), Hit(Absent),
      MkDict(<< <<"plugin_path", Str(Suffix \o <<"x">>)>>, <<"chunk_data", Str(<<"X">>)>> >>),
      MkDict(<< <<"plugin_path", None>>, <<"chunk_data", Str(<<"X">>)>> >>),
      MkDict(<< <<"name", Str(<<"X">>)>> >>),
      Str(Suffix) }

\* Entries nested in mappings and sequences, before and after the keys of
\* the enclosing mapping, and as the chunk_data value itself.
Nested ==
    { Dict(<< <<"a", e1>>, <<"b", List(<<e2>>)>> >>) : e1, e2 \in SomeEntries }
    \cup { List(<<e1, e2>>) : e1, e2 \in SomeEntries }
    \cup { Dict(<< <<"plugin_path", Str(Suffix)>>, <<"chunk_data", Str(<<"Z">>)>>,
                   <<"filters", List(<<e1, List(<<e2>>)>>)>> >>) : e1, e2 \in SomeEntries }
    \cup { Dict(<< <<"filters", List(<<e1>>)>>, <<"plugin_path", Str(Suffix)>>,
                   <<"chunk_data", e2>> >>) : e1, e2 \in SomeEntries }

Documents ==
    { None, Num("7"), Bool("true"), Str(Suffix), List(<<>>), Dict(<<>>) }
    \cup Entries \cup Nested

(***************************************************************************)
(* A run of the search on one document.                                    *)
(***************************************************************************)
SearchIdle == obj = None /\ found = NoResult /\ spc = "idle"
RetentionIdle ==
    /\ log_dir = <<>> /\ on_disk = {} /\ max_bytes = <<>> /\ files = <<>>
    /\ total_size = 0 /\ deleted = <<>> /\ failed = {} /\ rpc = "idle"

FormatIdle ==
    /\ duration = [s |-> 0, f |-> 0] /\ ns = [s |-> 0, f |-> 0] /\ parts = <<>>
    /\ unit = 0 /\ result = "" /\ fpc = "idle"

MainIdle ==
    /\ config = "present" /\ scenes_exists = TRUE /\ json_files = <<>> /\ console = <<>>
    /\ reported = 0 /\ selected_file = <<>> /\ data = None /\ chunk_datas = <<>>
    /\ clipboard = <<>> /\ error = 0 /\ fault = "none" /\ fault_at = "none"
    /\ handlers = {} /\ open_handlers = {} /\ acked = FALSE /\ exit_code = <<>>
    /\ mpc = "idle"

SearchInit ==
    /\ obj \in Documents
    /\ found = NoResult
    /\ spc = "call"
    /\ RetentionIdle
    /\ FormatIdle
    /\ MainIdle

\* chunk_datas = find_chunk_data_in_json(data): returns the list, or raises.
Search ==
    /\ spc = "call"
    /\ LET r == find_chunk_data_in_json(obj, <<>>)
       IN  /\ spc' = IF r.err THEN "raised" ELSE "returned"
           /\ found' = IF r.err THEN [err |-> TRUE, found |-> <<>>] ELSE r
    /\ UNCHANGED <<obj, retentionVars, formatVars, mainVars>>

SearchNext == Search
SpecSearch == SearchInit /\ [][SearchNext]_vars

(***************************************************************************)
(* The Match Set as the specification defines it, independently of the     *)
(* traversal: the chunk_data values of the qualifying mappings, ordered by *)
(* the position of the mapping in the document (pre-order).                *)
(***************************************************************************)
Children(o) == IF o.t = "dict" THEN values(o) ELSE IF o.t = "list" THEN o.v ELSE <<>>

RECURSIVE PathsOf(_)
PathsOf(o) ==
    {<<>>} \cup UNION { { <<i>> \o p : p \in PathsOf(Children(o)[i]) } :
                        i \in 1..Len(Children(o)) }

RECURSIVE At(_, _)
At(o, p) == IF p = <<>> THEN o ELSE At(Children(o)[Head(p)], Tail(p))

HasKey(d, key) == \E i \in 1..Len(d.v) : d.v[i][1] = key

Qualifies(n) ==
    /\ n.t = "dict"
    /\ HasKey(n, "plugin_path")
    /\ get(n, "plugin_path", None).t = "str"
    /\ endswith(get(n, "plugin_path", None).v, Suffix)
    /\ HasKey(n, "chunk_data")
    /\ get(n, "chunk_data", None).t # "null"

\* p comes before q in pre-order: p is an ancestor of q, or branches off earlier.
Before(p, q) ==
    \/ Len(p) < Len(q) /\ SubSeq(q, 1, Len(p)) = p
    \/ \E i \in 1..Len(p) :
          /\ i <= Len(q)
          /\ SubSeq(p, 1, i - 1) = SubSeq(q, 1, i - 1)
          /\ p[i] < q[i]

RECURSIVE InOrder(_)
InOrder(S) ==
    IF S = {} THEN <<>>
    ELSE LET m == CHOOSE p \in S : \A q \in S \ {p} : Before(p, q)
         IN  <<m>> \o InOrder(S \ {m})

QualifyingPaths(o) == { p \in PathsOf(o) : Qualifies(At(o, p)) }
MatchSet(o) ==
    LET ps == InOrder(QualifyingPaths(o))
    IN  [i \in 1..Len(ps) |-> get(At(o, ps[i]), "chunk_data", None)]

\* Some mapping of the document holds a plugin_path that is not a string.
HasNonStringPluginPath(o) ==
    \E p \in PathsOf(o) :
        /\ At(o, p).t = "dict"
        /\ HasKey(At(o, p), "plugin_path")
        /\ get(At(o, p), "plugin_path", None).t # "str"

\* C1: for every tree-shaped scene document the search returns exactly the
\* chunk_data values of the qualifying mappings (plugin_path ending with
\* the suffix, chunk_data non-null), one per mapping, in pre-order.
C1_ReturnsMatchSet ==
    spc # "call" => (spc = "returned" /\ found.found = MatchSet(obj))

\* C3: the search accepts every JSON document, also one whose plugin_path
\* is not a string or whose chunk_data is missing or null: it never raises.
C3_NeverRaises == spc # "raised"

\* What the code does (used to read the two failures above): it returns the
\* Match Set exactly when no plugin_path reached by the walk is a non-string.
SearchOutcome ==
    spc # "call" =>
        IF HasNonStringPluginPath(obj)
        THEN spc = "raised"
        ELSE spc = "returned" /\ found.found = MatchSet(obj)


(***************************************************************************)
(* enforce_max_folder_size(log_dir, max_bytes).                            *)
(***************************************************************************)
MaxFiles == 3
FileSizes == {10, 20, 30}
NoLimit == <<>>
Limits == {NoLimit, <<0 - 5>>, <<0>>, <<25>>, <<30>>, <<50>>}

\* The directories: up to MaxFiles log files, each with a size and an mtime.
LogDirs ==
    UNION { [1..n -> [size : FileSizes, mtime : 1..n]] : n \in 0..MaxFiles }

\* sorted(..., key=mtime): stable, so files of equal mtime keep glob order.
RECURSIVE sorted_by_mtime_from(_, _)
sorted_by_mtime_from(dir, left) ==
    IF left = {} THEN <<>>
    ELSE LET first == CHOOSE f \in left : \A g \in left \ {f} :
                          \/ dir[f].mtime < dir[g].mtime
                          \/ dir[f].mtime = dir[g].mtime /\ f < g
         IN  <<first>> \o sorted_by_mtime_from(dir, left \ {first})

\* The same list, newest first (sorted(..., reverse=True)).
newest_first(dir) ==
    LET asc == sorted_by_mtime_from(dir, DOMAIN dir)
    IN  [i \in 1..Len(asc) |-> asc[Len(asc) + 1 - i]]

\* Lines 181-184.
sorted_files(dir) == sorted_by_mtime_from(dir, DOMAIN dir)

\* sum(f.stat().st_size for f in fs)
RECURSIVE size_sum(_, _)
size_sum(dir, fs) ==
    IF fs = {} THEN 0
    ELSE LET f == CHOOSE g \in fs : TRUE
         IN  dir[f].size + size_sum(dir, fs \ {f})

\* The loop test with >= in place of >.
loop_test_ge(total, limit, fs) == total >= limit[1] /\ fs # <<>>

\* Line 188: while total_size > max_bytes and files
loop_test(total, limit, fs) == total > limit[1] /\ fs # <<>>

RetentionInit ==
    /\ log_dir \in LogDirs
    /\ on_disk = DOMAIN log_dir
    /\ max_bytes \in Limits
    /\ files = <<>>
    /\ total_size = 0
    /\ deleted = <<>>
    /\ failed = {}
    /\ rpc = "call"
    /\ SearchIdle
    /\ FormatIdle
    /\ MainIdle

\* Lines 178-179: no limit, nothing to do.
ReturnNoLimit ==
    /\ rpc = "call"
    /\ max_bytes = NoLimit
    /\ rpc' = "done"
    /\ UNCHANGED <<log_dir, on_disk, max_bytes, files, total_size, deleted, failed>>

\* Lines 181-186: list and sort the log files, add up their sizes.
Scan ==
    /\ rpc = "call"
    /\ max_bytes # NoLimit
    /\ files' = sorted_files(log_dir)
    /\ total_size' = size_sum(log_dir, DOMAIN log_dir)
    /\ rpc' = "loop"
    /\ UNCHANGED <<log_dir, on_disk, max_bytes, deleted, failed>>

\* Lines 195-197 with the total reduced although the deletion raised.
DeleteFailsCounted ==
    /\ rpc = "loop"
    /\ loop_test(total_size, max_bytes, files)
    /\ files' = Tail(files)
    /\ failed' = failed \cup {Head(files)}
    /\ total_size' = total_size - log_dir[Head(files)].size
    /\ UNCHANGED <<log_dir, on_disk, max_bytes, deleted, rpc>>

\* Lines 189-194: the oldest file is popped and unlinked, the total reduced.
DeleteOldest ==
    /\ rpc = "loop"
    /\ loop_test(total_size, max_bytes, files)
    /\ files' = Tail(files)
    /\ on_disk' = on_disk \ {Head(files)}
    /\ deleted' = Append(deleted, Head(files))
    /\ total_size' = total_size - log_dir[Head(files)].size
    /\ UNCHANGED <<log_dir, max_bytes, failed, rpc>>

\* Lines 189-192, 195-197: stat or unlink raises; the error is logged and
\* the loop continues, line 194 not having run.
DeleteFails ==
    /\ rpc = "loop"
    /\ loop_test(total_size, max_bytes, files)
    /\ files' = Tail(files)
    /\ failed' = failed \cup {Head(files)}
    /\ UNCHANGED <<log_dir, on_disk, max_bytes, total_size, deleted, rpc>>

\* Line 188 false: the function returns.
LoopExit ==
    /\ rpc = "loop"
    /\ ~loop_test(total_size, max_bytes, files)
    /\ rpc' = "done"
    /\ UNCHANGED <<log_dir, on_disk, max_bytes, files, total_size, deleted, failed>>

RetentionNext ==
    \/ (ReturnNoLimit /\ UNCHANGED <<searchVars, formatVars, mainVars>>)
    \/ (Scan /\ UNCHANGED <<searchVars, formatVars, mainVars>>)
    \/ (DeleteOldest /\ UNCHANGED <<searchVars, formatVars, mainVars>>)
    \/ (DeleteFails /\ UNCHANGED <<searchVars, formatVars, mainVars>>)
    \/ (LoopExit /\ UNCHANGED <<searchVars, formatVars, mainVars>>)
SpecRetention == RetentionInit /\ [][RetentionNext]_vars

(***************************************************************************)
(* Properties of enforce_max_folder_size.                                  *)
(***************************************************************************)
Remaining == size_sum(log_dir, on_disk)
LastDeleted == deleted[Len(deleted)]

\* Deletions went oldest first: no file was deleted before an older one,
\* and no file left on disk is older than a deleted one.
OldestFirst ==
    /\ \A i, j \in 1..Len(deleted) :
           i < j => log_dir[deleted[i]].mtime <= log_dir[deleted[j]].mtime
    /\ \A i \in 1..Len(deleted) : \A f \in on_disk :
           log_dir[deleted[i]].mtime <= log_dir[f].mtime

\* The loop stopped as soon as the remaining total was at or under the
\* limit: before its last deletion the total was still above it.
StoppedAsSoonAsUnder ==
    /\ deleted # <<>> => Remaining + log_dir[LastDeleted].size > max_bytes[1]
    /\ size_sum(log_dir, DOMAIN log_dir) <= max_bytes[1] => deleted = <<>>

AllDeletionsSucceeded == rpc = "done" /\ failed = {}

\* C6 as stated: with every deletion succeeding, no limit deletes nothing;
\* otherwise files go oldest first, the loop stops as soon as the remaining
\* total is at or under the limit, and on return that total is at or under
\* the limit.
C6_Original ==
    AllDeletionsSucceeded =>
        IF max_bytes = NoLimit THEN deleted = <<>>
        ELSE /\ OldestFirst
             /\ StoppedAsSoonAsUnder
             /\ Remaining <= max_bytes[1]

\* C6 amended: as C6, but on return the remaining total is at or under the
\* limit or no log file remains (a negative limit empties the folder and
\* the total, 0, stays above it).
C6_Amended ==
    AllDeletionsSucceeded =>
        IF max_bytes = NoLimit THEN deleted = <<>>
        ELSE /\ OldestFirst
             /\ StoppedAsSoonAsUnder
             /\ (Remaining <= max_bytes[1] \/ on_disk = {})

\* A run that stopped early: some files deleted, some kept.
C6_Witness ==
    /\ AllDeletionsSucceeded
    /\ max_bytes # NoLimit
    /\ deleted # <<>>
    /\ on_disk # {}
    /\ Remaining = max_bytes[1]

\* Three files of 10, 20 and 30 bytes with distinct mtimes, a 25-byte limit.
ThreeFiles ==
    /\ Len(log_dir) = 3
    /\ {log_dir[f].size : f \in 1..3} = {10, 20, 30}
    /\ {log_dir[f].mtime : f \in 1..3} = {1, 2, 3}
    /\ max_bytes = <<25>>
Newest == CHOOSE f \in DOMAIN log_dir : \A g \in DOMAIN log_dir : log_dir[g].mtime <= log_dir[f].mtime

\* C7 as stated: for every mtime order of the three files, exactly the two
\* oldest are deleted and the newest is kept, leaving at most 25 bytes.
C7_Original ==
    (ThreeFiles /\ AllDeletionsSucceeded) =>
        /\ on_disk = {Newest}
        /\ Len(deleted) = 2
        /\ Remaining <= 25

\* C7 amended: the two oldest files are deleted oldest first; the newest is
\* kept when it is the 10- or the 20-byte file and deleted too when it is
\* the 30-byte file (30 > 25); the remaining total is at most 25 bytes.
C7_Amended ==
    (ThreeFiles /\ AllDeletionsSucceeded) =>
        /\ OldestFirst
        /\ Len(deleted) >= 2
        /\ IF log_dir[Newest].size = 30
           THEN on_disk = {} /\ Len(deleted) = 3
           ELSE on_disk = {Newest} /\ Len(deleted) = 2
        /\ Remaining <= 25

\* The case of the specification: 10, 20, 30 from oldest to newest.
C7_Witness ==
    /\ ThreeFiles
    /\ AllDeletionsSucceeded
    /\ \A f \in 1..3 : log_dir[f].size = 10 * log_dir[f].mtime
    /\ on_disk = {}

\* C10 as stated: a failed deletion is not fatal, the loop goes on with the
\* next-oldest file, and the running total is reduced by the size of the
\* file whose deletion failed.
C10_Original ==
    [][failed' # failed =>
          /\ rpc' = "loop"
          /\ files' = Tail(files)
          /\ total_size' = total_size - log_dir[Head(files)].size]_vars

\* C10 amended: a failed deletion is not fatal and the loop goes on with
\* the next-oldest file, but the running total is left as it was, so that
\* in the loop it always equals the total size of the files still on disk.
C10_Amended ==
    /\ [](rpc = "loop" => total_size = Remaining)
    /\ [][failed' # failed =>
             /\ rpc' = "loop"
             /\ files' = Tail(files)
             /\ total_size' = total_size
             /\ on_disk' = on_disk]_vars

\* A deletion failed and the loop went on to delete a newer file.
C10_Witness ==
    /\ rpc = "done"
    /\ failed # {}
    /\ \E i \in 1..Len(deleted) : \E f \in failed :
           log_dir[f].mtime < log_dir[deleted[i]].mtime

(***************************************************************************)
(* Arithmetic of format_duration_long.  A Python int of nanoseconds is the *)
(* pair [s, f] standing for s * 10^9 + f with 0 <= f < 10^9.  A Python     *)
(* float (IEEE 754 binary64) is [bits, exp]: bits the significand, most    *)
(* significant bit first and at most 53 long, standing for bits * 2^exp;   *)
(* <<>> is 0.0.                                                            *)
(***************************************************************************)
Giga == 1000000000
Precision == 53

Ns(s, f) == [s |-> s, f |-> f]
ZeroNs == Ns(0, 0)

Half(n) ==
    IF n.s % 2 = 0 THEN Ns(n.s \div 2, n.f \div 2)
    ELSE Ns(n.s \div 2, (n.f + Giga) \div 2)
Double(n, bit) ==
    LET t == 2 * n.f + bit IN Ns(2 * n.s + t \div Giga, t % Giga)

\* The bits of a Python int, most significant first (<<>> for 0): the loop
\* state is the part of n not yet read and the bits read so far.
RECURSIVE to_bits_loop(_)
to_bits_loop(st) ==
    IF st.n = ZeroNs THEN st.bits
    ELSE to_bits_loop([n |-> Half(st.n), bits |-> <<st.n.f % 2>> \o st.bits])
to_bits(n) == to_bits_loop([n |-> n, bits |-> <<>>])

\* The Python int a bit string stands for.
RECURSIVE from_bits_loop(_)
from_bits_loop(st) ==
    IF st.rest = <<>> THEN st.n
    ELSE from_bits_loop([rest |-> Tail(st.rest), n |-> Double(st.n, Head(st.rest))])
from_bits(b) == from_bits_loop([rest |-> b, n |-> ZeroNs])

strip_zeros(b) ==
    IF \A i \in 1..Len(b) : b[i] = 0 THEN <<>>
    ELSE LET first == CHOOSE i \in 1..Len(b) : b[i] = 1 /\ \A j \in 1..(i - 1) : b[j] = 0
         IN  SubSeq(b, first, Len(b))

Zeros(k) == [i \in 1..k |-> 0]

\* bits + 1, as a bit string (one bit longer when every bit is 1).
increment(b) ==
    IF \A i \in 1..Len(b) : b[i] = 1 THEN <<1>> \o Zeros(Len(b))
    ELSE LET last == CHOOSE i \in 1..Len(b) : b[i] = 0 /\ \A j \in (i + 1)..Len(b) : b[j] = 1
         IN  [i \in 1..Len(b) |-> IF i < last THEN b[i] ELSE IF i = last THEN 1 ELSE 0]

\* Rounding to nearest, ties to even, of bits * 2^exp (plus a non-zero
\* amount below the last bit when sticky) to Precision significant bits.
round_nearest_even(bits0, exp, sticky) ==
    LET bits == strip_zeros(bits0)
        extra == Len(bits) - Precision
    IN  IF extra <= 0 THEN [bits |-> bits, exp |-> exp]
        ELSE LET keep == SubSeq(bits, 1, Precision)
                 guard == bits[Precision + 1]
                 below == sticky \/ \E i \in (Precision + 2)..Len(bits) : bits[i] = 1
                 up == guard = 1 /\ (below \/ keep[Precision] = 1)
                 r == IF up THEN increment(keep) ELSE keep
             IN  IF Len(r) > Precision
                 THEN [bits |-> SubSeq(r, 1, Precision), exp |-> exp + extra + 1]
                 ELSE [bits |-> r, exp |-> exp + extra]

\* float(n) for a Python int n.
to_float(n) == round_nearest_even(to_bits(n), 0, FALSE)

\* Long division by 10^9 of the integer whose bits are d: quotient bits are
\* produced for every bit of d and then below the binary point, until the
\* division is exact or the quotient has more bits than the rounding reads.
\* q is the quotient so far, rem the remainder, i the next position.
RECURSIVE long_div(_, _, _, _)
long_div(d, i, rem, q) ==
    IF (Len(q) >= Precision + 2 \/ rem = 0) /\ i > Len(d)
    THEN [bits |-> q, exp |-> Len(d) + 1 - i, sticky |-> rem # 0]
    ELSE LET t == 2 * rem + (IF i <= Len(d) THEN d[i] ELSE 0)
             qb == IF t >= Giga THEN 1 ELSE 0
         IN  long_div(d, i + 1, t - qb * Giga,
                      IF q = <<>> /\ qb = 0 THEN q ELSE Append(q, qb))

\* x / 1e9 on floats.
fdiv_giga(x) ==
    IF x.bits = <<>> THEN x
    ELSE LET q == long_div(x.bits \o Zeros(x.exp), 1, 0, <<>>)
         IN  round_nearest_even(q.bits, q.exp, q.sticky)

\* bits * 10^9 as a bit string: one pass from the last bit of b with a
\* carry; out holds the product bits of the part of b already read.
RECURSIVE times_giga(_, _, _)
times_giga(b, carry, out) ==
    IF Len(out) = Len(b) THEN to_bits(Ns(0, carry)) \o out
    ELSE LET acc == b[Len(b) - Len(out)] * Giga + carry
         IN  times_giga(b, acc \div 2, <<acc % 2>> \o out)

\* x * 1_000_000_000 on floats.
fmul_giga(x) ==
    IF x.bits = <<>> THEN x
    ELSE round_nearest_even(times_giga(x.bits, 0, <<>>), x.exp, FALSE)

\* int(x) for a float x >= 0: truncation toward zero.
int_of_float(x) ==
    IF x.exp >= 0 THEN from_bits(x.bits \o Zeros(x.exp))
    ELSE IF 0 - x.exp >= Len(x.bits) THEN ZeroNs
    ELSE from_bits(SubSeq(x.bits, 1, Len(x.bits) + x.exp))


(***************************************************************************)
(* format_duration_long(duration / 1e9).                                   *)
(***************************************************************************)
\* Lines 150-160, each factor as a number of nanoseconds.
units ==
    << [name |-> "y",  factor |-> Ns(365 * 24 * 60 * 60, 0)],
       [name |-> "mo", factor |-> Ns(30 * 24 * 60 * 60, 0)],
       [name |-> "d",  factor |-> Ns(24 * 60 * 60, 0)],
       [name |-> "h",  factor |-> Ns(60 * 60, 0)],
       [name |-> "m",  factor |-> Ns(60, 0)],
       [name |-> "s",  factor |-> Ns(1, 0)],
       [name |-> "ms", factor |-> Ns(0, 1000000)],
       [name |-> "us", factor |-> Ns(0, 1000)],
       [name |-> "ns", factor |-> Ns(0, 1)] >>

\* divmod(n, factor) for a factor of units: a whole number of seconds, or a
\* divisor of 10^9 below one second.
divmod(n, factor) ==
    IF factor.s > 0
    THEN [value |-> n.s \div factor.s, rest |-> Ns(n.s % factor.s, n.f)]
    ELSE [value |-> n.s * (Giga \div factor.f) + n.f \div factor.f,
          rest |-> Ns(0, n.f % factor.f)]

\* f'{value}{name}' of line 165.
part_text(p) == ToString(p.value) \o p.name

\* "".join(parts)
RECURSIVE join(_)
join(ps) == IF ps = <<>> THEN "" ELSE part_text(Head(ps)) \o join(Tail(ps))

\* The durations formatted.
MaxNanos == 20
WholeSeconds ==
    { 0, 1, 59, 60, 90, 3600, 3661, 24 * 60 * 60, 30 * 24 * 60 * 60, 365 * 24 * 60 * 60,
      (365 + 30 + 1) * 24 * 60 * 60 + 3661 }
SubSeconds ==
    (0..MaxNanos) \cup { 999, 1000, 1001, 999999, 1000000, 1001000, 500000000, 999999999 }
Durations == { Ns(s, f) : s \in WholeSeconds, f \in SubSeconds }

FormatInit ==
    /\ duration \in Durations
    /\ ns = ZeroNs
    /\ parts = <<>>
    /\ unit = 0
    /\ result = ""
    /\ fpc = "call"
    /\ SearchIdle
    /\ RetentionIdle
    /\ MainIdle

\* Line 278, duration / 1e9, and line 149, int(duration_seconds * 1_000_000_000).
FormatCall ==
    /\ fpc = "call"
    /\ ns' = int_of_float(fmul_giga(fdiv_giga(to_float(duration))))
    /\ parts' = <<>>
    /\ unit' = 1
    /\ fpc' = "loop"
    /\ UNCHANGED <<duration, result>>

\* Lines 162-167: one pass of the loop over units; it ends at two parts or
\* after the last unit.
FormatUnit ==
    /\ fpc = "loop"
    /\ LET dm == divmod(ns, units[unit].factor)
           ps == IF dm.value # 0
                 THEN Append(parts, [value |-> dm.value, name |-> units[unit].name])
                 ELSE parts
       IN  /\ ns' = dm.rest
           /\ parts' = ps
           /\ IF Len(ps) = 2 \/ unit = Len(units)
              THEN fpc' = "join" /\ unit' = unit
              ELSE fpc' = "loop" /\ unit' = unit + 1
    /\ UNCHANGED <<duration, result>>

\* Lines 168-170.
FormatReturn ==
    /\ fpc = "join"
    /\ result' = IF parts = <<>> THEN "0s" ELSE join(parts)
    /\ fpc' = "done"
    /\ UNCHANGED <<duration, ns, parts, unit>>

FormatNext ==
    \/ (FormatCall /\ UNCHANGED <<searchVars, retentionVars, mainVars>>)
    \/ (FormatUnit /\ UNCHANGED <<searchVars, retentionVars, mainVars>>)
    \/ (FormatReturn /\ UNCHANGED <<searchVars, retentionVars, mainVars>>)
SpecFormat == FormatInit /\ [][FormatNext]_vars

(***************************************************************************)
(* Properties of format_duration_long.                                     *)
(***************************************************************************)
\* The decomposition of d nanoseconds over y(365d), mo(30d), d, h, m, s,
\* ms, us, ns, each component with the name of its unit.
Components(d) ==
    LET Y == 365 * 24 * 60 * 60
        MO == 30 * 24 * 60 * 60
        D == 24 * 60 * 60
    IN  << [value |-> d.s \div Y, name |-> "y"],
           [value |-> (d.s % Y) \div MO, name |-> "mo"],
           [value |-> ((d.s % Y) % MO) \div D, name |-> "d"],
           [value |-> (((d.s % Y) % MO) % D) \div 3600, name |-> "h"],
           [value |-> (d.s % 3600) \div 60, name |-> "m"],
           [value |-> d.s % 60, name |-> "s"],
           [value |-> d.f \div 1000000, name |-> "ms"],
           [value |-> (d.f \div 1000) % 1000, name |-> "us"],
           [value |-> d.f % 1000, name |-> "ns"] >>

\* Its first two non-zero components, rendered with no separator; "0s"
\* when every component is zero.
TwoLargest(d) ==
    LET nz == SelectSeq(Components(d), LAMBDA c : c.value # 0)
    IN  IF nz = <<>> THEN "0s"
        ELSE IF Len(nz) = 1 THEN part_text(nz[1])
        ELSE part_text(nz[1]) \o part_text(nz[2])

Shown == { parts[i].name : i \in 1..Len(parts) }

\* C8: for every whole number of nanoseconds the result is the first two
\* non-zero components of the duration's decomposition, largest first with
\* no separator, one part when only one is non-zero, "0s" when none is.
C8_TwoLargestOfDuration ==
    fpc = "done" => result = TwoLargest(duration)

\* C9: no microseconds or nanoseconds part for a duration of at least one
\* second, no milliseconds part for one of at least one minute.
C9_NoSmallUnits ==
    fpc = "done" =>
        /\ duration.s >= 1 => Shown \cap {"us", "ns"} = {}
        /\ duration.s >= 60 => "ms" \notin Shown

\* What the code returns: the two largest components of the nanoseconds
\* that come back from the float round trip of lines 278 and 149.
FormatOutcome ==
    fpc = "done" =>
        /\ result = TwoLargest(int_of_float(fmul_giga(fdiv_giga(to_float(duration)))))
        /\ Len(parts) <= 2
        /\ (duration = Ns(90, 0) => result = "1m30s")
        /\ (duration = Ns(3661, 0) => result = "1h1m")
        /\ (duration = ZeroNs => result = "0s")


(***************************************************************************)
(* The entry point (lines 243-291) around main (lines 90-140).             *)
(***************************************************************************)
MaxCandidates == 3
MaxInputs == 3

NoFile == <<>>
NoData == Absent

\* A console line is the tuple of its characters.
Digits == {"0", "1", "2", "3", "4", "5", "6", "7", "8", "9"}
DigitValue(c) ==
    CASE c = "0" -> 0 [] c = "1" -> 1 [] c = "2" -> 2 [] c = "3" -> 3 [] c = "4" -> 4
      [] c = "5" -> 5 [] c = "6" -> 6 [] c = "7" -> 7 [] c = "8" -> 8 [] c = "9" -> 9

\* str.strip() for blanks.
strip(line) ==
    IF \A i \in 1..Len(line) : line[i] = " " THEN <<>>
    ELSE LET a == CHOOSE i \in 1..Len(line) :
                      line[i] # " " /\ \A j \in 1..(i - 1) : line[j] = " "
             b == CHOOSE i \in 1..Len(line) :
                      line[i] # " " /\ \A j \in (i + 1)..Len(line) : line[j] = " "
         IN  SubSeq(line, a, b)

\* The value of a string of digits with underscores, read left to right.
RECURSIVE digits_value(_, _)
digits_value(ds, acc) ==
    IF ds = <<>> THEN acc
    ELSE digits_value(Tail(ds), IF Head(ds) = "_" THEN acc ELSE 10 * acc + DigitValue(Head(ds)))

\* int(line), base 10: blanks around, an optional sign, digits with single
\* underscores between them.  [ok, value]; ok FALSE is ValueError.
py_int(line) ==
    LET t == strip(line)
        signed == t # <<>> /\ t[1] \in {"+", "-"}
        body == IF signed THEN Tail(t) ELSE t
        wellformed ==
            /\ body # <<>>
            /\ \A i \in 1..Len(body) : body[i] \in Digits \cup {"_"}
            /\ body[1] # "_" /\ body[Len(body)] # "_"
            /\ \A i \in 1..(Len(body) - 1) : ~(body[i] = "_" /\ body[i + 1] = "_")
    IN  IF ~wellformed THEN [ok |-> FALSE, value |-> 0]
        ELSE [ok |-> TRUE,
              value |-> IF signed /\ t[1] = "-" THEN 0 - digits_value(body, 0)
                        ELSE digits_value(body, 0)]

\* seq[i] with Python's indexing: 0-based, a negative index counts from the end.
py_index(seq, i) == IF i >= 0 THEN seq[i + 1] ELSE seq[Len(seq) + i + 1]

\* The range test with 0 <= in place of 1 <=.
in_range_from_zero(selection, n) == 0 <= selection /\ selection <= n

\* Line 115: 1 <= selection <= len(json_files)
in_range(selection, n) == 1 <= selection /\ selection <= n

\* The lines a user may type at the selection prompt.
InputLines ==
    { <<"1">>, <<"2">>, <<"3">>, <<"0">>, <<"5">>, <<"-", "1">>, <<"a", "b", "c">>, <<>>,
      <<" ", "2", " ">>, <<"+", "1">>, <<"2", ".", "5">>, <<"0", "4">> }

\* What json.load may find in a scene file: text that is not JSON, or one of
\* these documents.
Malformed == [t |-> "malformed", v |-> <<>>]
SceneFiles ==
    { Malformed,
      Dict(<< <<"name", Str(<<"X">>)>> >>),
      Dict(<< <<"sources", List(<<Hit(None), Hit(Absent)>>)>> >>),
      Dict(<< <<"sources", List(<<Dict(<< <<"filters", List(<<Hit(Str(<<"X">>))>>)>> >>)>>)>> >>),
      List(<<Hit(Str(<<"X">>)), Hit(Str(<<"Y">>))>>),
      List(<<Hit(Str(<<"X">>)), Hit(Str(<<"Y">>)), Hit(Str(<<"X">>))>>),
      List(<<Hit(Str(<<"X">>)), MkDict(<< <<"plugin_path", None>> >>)>>) }

\* The positions inside the try block of line 245.
TryBlock == {"load_config", "setup_logging", "main", "prompt", "read", "search", "policy", "timing"}

MainInit ==
    /\ config \in {"present", "missing", "invalid"}
    /\ scenes_exists \in BOOLEAN
    /\ json_files \in { [i \in 1..n |-> <<"scene", i>>] : n \in 0..MaxCandidates }
    /\ console = <<>>
    /\ reported = 0
    /\ selected_file = NoFile
    /\ data = NoData
    /\ chunk_datas = <<>>
    /\ clipboard = <<>>
    /\ error = 0
    /\ fault = "none"
    /\ fault_at = "none"
    /\ handlers = {}
    /\ open_handlers = {}
    /\ acked = FALSE
    /\ exit_code = <<>>
    /\ mpc = "load_config"
    /\ SearchIdle
    /\ RetentionIdle
    /\ FormatIdle

\* Lines 280-282 with the status of the other handler.
interrupted_as_failure(why) ==
    /\ error' = 1
    /\ fault' = why
    /\ fault_at' = mpc
    /\ mpc' = "finally"

\* Lines 283-285: except Exception, error = 1.
raises(why) ==
    /\ error' = 1
    /\ fault' = why
    /\ fault_at' = mpc
    /\ mpc' = "finally"

\* Lines 280-282: except KeyboardInterrupt, error = 130.
interrupted(why) ==
    /\ error' = 130
    /\ fault' = why
    /\ fault_at' = mpc
    /\ mpc' = "finally"

keeps == /\ UNCHANGED <<error, fault, fault_at>>

\* Line 249: load_config raises when the settings file is missing (line 238)
\* or is not valid TOML (line 36).
LoadConfig ==
    /\ mpc = "load_config"
    /\ IF config = "present" THEN mpc' = "setup_logging" /\ keeps
       ELSE raises(IF config = "missing" THEN "config_missing" ELSE "config_invalid")
    /\ UNCHANGED <<config, scenes_exists, json_files, console, reported, selected_file,
                   data, chunk_datas, clipboard, handlers, open_handlers, acked, exit_code>>

\* Lines 265-272: setup_logging adds the file and the console handler.
SetupLogging ==
    /\ mpc = "setup_logging"
    /\ handlers' = {"file", "console"}
    /\ open_handlers' = {"file", "console"}
    /\ mpc' = "main"
    /\ keeps
    /\ UNCHANGED <<config, scenes_exists, json_files, console, reported, selected_file,
                   data, chunk_datas, clipboard, acked, exit_code>>

\* Lines 91-110: the scan of the scenes folder; a single candidate is
\* selected without a prompt.
MainScan ==
    /\ mpc = "main"
    /\ IF ~scenes_exists THEN raises("scenes_missing") /\ UNCHANGED selected_file
       ELSE IF json_files = <<>> THEN raises("no_files") /\ UNCHANGED selected_file
       ELSE IF Len(json_files) = 1
            THEN selected_file' = py_index(json_files, 0) /\ mpc' = "read" /\ keeps
            ELSE mpc' = "prompt" /\ keeps /\ UNCHANGED selected_file
    /\ UNCHANGED <<config, scenes_exists, json_files, console, reported, data, chunk_datas,
                   clipboard, handlers, open_handlers, acked, exit_code>>

\* Lines 112-121: one pass of the selection loop on the line the user types.
Prompt ==
    /\ mpc = "prompt"
    /\ Len(console) < MaxInputs
    /\ \E line \in InputLines :
          LET selection == py_int(line)
          IN  /\ console' = Append(console, line)
              /\ IF selection.ok /\ in_range(selection.value, Len(json_files))
                 THEN /\ selected_file' = py_index(json_files, selection.value - 1)
                      /\ mpc' = "read"
                      /\ UNCHANGED reported
                 ELSE /\ reported' = reported + 1
                      /\ UNCHANGED <<selected_file, mpc>>
    /\ keeps
    /\ UNCHANGED <<config, scenes_exists, json_files, data, chunk_datas, clipboard,
                   handlers, open_handlers, acked, exit_code>>

\* Line 125: read_json_file; json.JSONDecodeError is logged and raised again.
ReadJson ==
    /\ mpc = "read"
    /\ \E content \in SceneFiles :
          IF content = Malformed THEN raises("malformed") /\ UNCHANGED data
          ELSE data' = content /\ mpc' = "search" /\ keeps
    /\ UNCHANGED <<config, scenes_exists, json_files, console, reported, selected_file,
                   chunk_datas, clipboard, handlers, open_handlers, acked, exit_code>>

\* Line 129: the search, which may raise AttributeError.
MainSearch ==
    /\ mpc = "search"
    /\ LET r == find_chunk_data_in_json(data, <<>>)
       IN  IF r.err THEN raises("search_error") /\ UNCHANGED chunk_datas
           ELSE chunk_datas' = r.found /\ mpc' = "policy" /\ keeps
    /\ UNCHANGED <<config, scenes_exists, json_files, console, reported, selected_file,
                   data, clipboard, handlers, open_handlers, acked, exit_code>>

\* Lines 134-140: pyperclip.copy for exactly one match, a warning otherwise.
copy_policy(cd, clip) == IF Len(cd) = 1 THEN Append(clip, py_index(cd, 0)) ELSE clip

Policy ==
    /\ mpc = "policy"
    /\ clipboard' = copy_policy(chunk_datas, clipboard)
    /\ mpc' = "timing"
    /\ keeps
    /\ UNCHANGED <<config, scenes_exists, json_files, console, reported, selected_file,
                   data, chunk_datas, handlers, open_handlers, acked, exit_code>>

\* Lines 276-279: main has returned; the duration is logged.
Timing ==
    /\ mpc = "timing"
    /\ mpc' = "finally"
    /\ keeps
    /\ UNCHANGED <<config, scenes_exists, json_files, console, reported, selected_file,
                   data, chunk_datas, clipboard, handlers, open_handlers, acked, exit_code>>

\* Ctrl-C anywhere in the try block: KeyboardInterrupt, lines 280-282.
Interrupt ==
    /\ mpc \in TryBlock
    /\ interrupted("interrupt")
    /\ UNCHANGED <<config, scenes_exists, json_files, console, reported, selected_file,
                   data, chunk_datas, clipboard, handlers, open_handlers, acked, exit_code>>

\* Lines 287-289: every handler is closed, the list cleared.
Finally ==
    /\ mpc = "finally"
    /\ open_handlers' = open_handlers \ handlers
    /\ handlers' = {}
    /\ mpc' = "ack"
    /\ keeps
    /\ UNCHANGED <<config, scenes_exists, json_files, console, reported, selected_file,
                   data, chunk_datas, clipboard, acked, exit_code>>

\* Lines 290-291: the prompt is answered with Enter, then sys.exit(error).
Acknowledge ==
    /\ mpc = "ack"
    /\ acked' = TRUE
    /\ exit_code' = <<error>>
    /\ mpc' = "exited"
    /\ keeps
    /\ UNCHANGED <<config, scenes_exists, json_files, console, reported, selected_file,
                   data, chunk_datas, clipboard, handlers, open_handlers>>

MainNext ==
    \/ (LoadConfig /\ UNCHANGED <<searchVars, retentionVars, formatVars>>)
    \/ (SetupLogging /\ UNCHANGED <<searchVars, retentionVars, formatVars>>)
    \/ (MainScan /\ UNCHANGED <<searchVars, retentionVars, formatVars>>)
    \/ (Prompt /\ UNCHANGED <<searchVars, retentionVars, formatVars>>)
    \/ (ReadJson /\ UNCHANGED <<searchVars, retentionVars, formatVars>>)
    \/ (MainSearch /\ UNCHANGED <<searchVars, retentionVars, formatVars>>)
    \/ (Policy /\ UNCHANGED <<searchVars, retentionVars, formatVars>>)
    \/ (Timing /\ UNCHANGED <<searchVars, retentionVars, formatVars>>)
    \/ (Interrupt /\ UNCHANGED <<searchVars, retentionVars, formatVars>>)
    \/ (Finally /\ UNCHANGED <<searchVars, retentionVars, formatVars>>)
    \/ (Acknowledge /\ UNCHANGED <<searchVars, retentionVars, formatVars>>)
SpecMain == MainInit /\ [][MainNext]_vars

(***************************************************************************)
(* Properties of main and of the entry point.                              *)
(***************************************************************************)
\* C2: the clipboard is written if and only if the Match Set of the
\* selected file has exactly one element, and with that element; with zero
\* or several elements the run ends without a clipboard write.
C2_ClipboardIffOneMatch ==
    /\ Len(clipboard) <= 1
    /\ data = NoData => clipboard = <<>>
    /\ (mpc = "exited" /\ data # NoData /\ fault # "interrupt") =>
           IF Len(MatchSet(data)) = 1
           THEN clipboard = <<MatchSet(data)[1]>>
           ELSE clipboard = <<>>

\* What the code does: the policy is applied to the list the search
\* returned, and nothing is written when the search raised.
ClipboardOutcome ==
    /\ Len(clipboard) <= 1
    /\ (mpc = "exited" /\ fault = "none") =>
           /\ chunk_datas = MatchSet(data)
           /\ IF Len(chunk_datas) = 1 THEN clipboard = <<chunk_datas[1]>>
              ELSE clipboard = <<>>
    /\ fault = "search_error" => clipboard = <<>> /\ HasNonStringPluginPath(data)

\* The line is an integer k with 1 <= k <= n.
Accepted(line, n) ==
    py_int(line).ok /\ 1 <= py_int(line).value /\ py_int(line).value <= n

\* C4: a single candidate is selected without a prompt; with two or more,
\* every line that is not an integer in 1..n is reported and followed by
\* another prompt without an error, the loop ends only at the first line
\* that is an integer k in 1..n, and the k-th listed file is selected.
C4_FileSelection ==
    LET n == Len(json_files)
        typed == Len(console)
    IN  /\ console # <<>> => n >= 2
        /\ fault_at = "prompt" => fault = "interrupt"
        /\ mpc = "prompt" => selected_file = NoFile
        /\ selected_file = NoFile =>
               /\ \A i \in 1..typed : ~Accepted(console[i], n)
               /\ reported = typed
        /\ (selected_file # NoFile /\ n = 1) =>
               /\ console = <<>>
               /\ selected_file = json_files[1]
        /\ (selected_file # NoFile /\ n >= 2) =>
               /\ console # <<>>
               /\ \A i \in 1..(typed - 1) : ~Accepted(console[i], n)
               /\ Accepted(console[typed], n)
               /\ selected_file = json_files[py_int(console[typed]).value]
               /\ reported = typed - 1

\* Three candidates: "0" and "abc" are rejected, " 2 " selects the second.
C4_Witness ==
    /\ Len(json_files) = 3
    /\ console = << <<"0">>, <<"a", "b", "c">>, <<" ", "2", " ">> >>
    /\ reported = 2
    /\ selected_file = json_files[2]
    /\ mpc = "read"

=============================================================================
